---- MODULE Spec2Model ----
(***************************************************************************)
(* Model of the taxi-fare notebook (src/unnamed/part_001): the pure        *)
(* helpers distance_between and compute_rmse, and the cell sequence        *)
(* preprocess -> split -> to_csv -> benchmark.                              *)
(*                                                                         *)
(* Floating point is modelled as decimal fixed point with round-to-nearest *)
(* (sign-symmetric, as IEEE rounding is).  Angles and the values of sin,   *)
(* cos carry 8 fractional digits (unit 1/H8^2); degrees and distances      *)
(* carry 4 fractional digits (unit 1/H4^2).  Every operation rounds its    *)
(* result, so sums that are 1 in exact arithmetic may come out one unit    *)
(* above or below 1, as they do in binary floating point.                  *)
(***************************************************************************)
EXTENDS Integers, Sequences, FiniteSets, TLC

(***************************************************************************)
(* Fixed-point arithmetic                                                  *)
(***************************************************************************)
\* Square roots of the two fixed-point units.
H8 == 10000
H4 == 100

Abs(x) == IF x < 0 THEN -x ELSE x
Sgn(x) == IF x < 0 THEN -1 ELSE 1

\* n / d rounded to nearest, ties away from zero (n any sign, d > 0).
RDiv(n, d) == Sgn(n) * ((2 * Abs(n) + d) \div (2 * d))

\* The product of two fixed-point numbers of unit 1/(h*h), rounded to
\* nearest.  The operands are split in base h so that no intermediate
\* exceeds the machine integer.
FMulAbs(a, b, h) ==
    LET a1 == a \div h
        a0 == a % h
        b1 == b \div h
        b0 == b % h
        t  == a1 * b0 + a0 * b1
        u  == a0 * b0
    IN  a1 * b1 + ((t + ((u + (h * h) \div 2) \div h)) \div h)

FMul(a, b, h) == Sgn(a) * Sgn(b) * FMulAbs(Abs(a), Abs(b), h)

\* pi, pi/2, pi/4 and 2 pi in units of 1e-8.
PI8 == 314159265
HALFPI8 == 157079633
QUARTPI8 == 78539816
TWOPI8 == 628318531

\* np.radians: degrees (an integer number of degrees) times pi/180
\* = 0.01745329 2519943..., in units of 1e-8.
DEG2RAD_HI == 1745329
DEG2RAD_LO == 2520
radians(deg) == deg * DEG2RAD_HI + RDiv(deg * DEG2RAD_LO, H8)

\* The Taylor sum  t + t*y2/(k(k+1)) ... with alternating sign, for
\* sin (first term y, k = 2) and cos (first term 1, k = 1).
TaylorTerms == 7

RECURSIVE Series(_, _, _, _)
Series(term, y2, k, n) ==
    IF n = 0 \/ term = 0 THEN 0
    ELSE term - Series(RDiv(FMul(term, y2, H8), k * (k + 1)), y2, k + 2, n - 1)

\* Kernels on [0, pi/4], as in libm's __kernel_sin and __kernel_cos.
SinK(y) == Series(y, FMul(y, y, H8), 2, TaylorTerms)
CosK(y) == Series(H8 * H8, FMul(y, y, H8), 1, TaylorTerms)

\* sin and cos on [0, pi/2]: the argument is reduced to [0, pi/4].
SinQ(y) == IF y > QUARTPI8 THEN CosK(HALFPI8 - y) ELSE SinK(y)
CosQ(y) == IF y > QUARTPI8 THEN SinK(HALFPI8 - y) ELSE CosK(y)

\* np.cos for |x| <= 2 pi: even, reduced to [0, pi/2].
cos(x) ==
    LET a == Abs(x)
        b == IF a > PI8 THEN TWOPI8 - a ELSE a
    IN  IF b > HALFPI8 THEN -CosQ(PI8 - b) ELSE CosQ(b)

\* np.sin for |x| <= pi: odd, reduced to [0, pi/2].
sin(x) ==
    LET a == Abs(x)
    IN  Sgn(x) * (IF a > HALFPI8 THEN SinQ(PI8 - a) ELSE SinQ(a))

\* A float that may be NaN.
NaN == [nan |-> TRUE, v |-> 0]
Num(v) == [nan |-> FALSE, v |-> v]

\* np.arccos, in units of 1e-8 rad: NaN outside [-1, 1]; inside, the least
\* angle in [0, pi] whose cosine does not exceed c (cos decreases on [0, pi]),
\* found by bisection.  arccos(1) = 0 exactly.
RECURSIVE Bisect(_, _, _)
Bisect(c, lo, hi) ==
    IF hi - lo <= 1 THEN hi
    ELSE LET mid == (lo + hi) \div 2
         IN  IF cos(mid) <= c THEN Bisect(c, lo, mid) ELSE Bisect(c, mid, hi)

arccos(c) ==
    IF c > H8 * H8 \/ c < -(H8 * H8) THEN NaN
    ELSE IF c = H8 * H8 THEN Num(0)
    ELSE Num(Bisect(c, 0, PI8))

\* np.degrees: radians (unit 1e-8) times 180/pi = 57.2958, giving degrees
\* in units of 1e-4.
RAD2DEG == 572958
degrees(r) == FMul(r, RAD2DEG, H8)

\* The factors of line 550: 60 nautical miles per degree, 1.515 and
\* 1.609344 km per mile (units of 1e-8).
NM_PER_DEG == 60
MILE_FACTOR == 151500000
KM_PER_MILE == 160934400

Min(a, b) == IF a <= b THEN a ELSE b

(***************************************************************************)
(* distance_between (lines 542-552).  Arguments are whole degrees; the     *)
(* result is a float in units of 1e-4 km, or NaN.                          *)
(***************************************************************************)
\* Variant with a slip: cos(lat1) taken twice in cos_prod.
distance_between_lat1_twice(lat1, lon1, lat2, lon2) ==
    LET lat1_r     == radians(lat1)
        lat2_r     == radians(lat2)
        lon_diff_r == radians(lon2 - lon1)
        sin_prod   == FMul(sin(lat1_r), sin(lat2_r), H8)
        cos_prod   == FMul(FMul(cos(lat1_r), cos(lat1_r), H8), cos(lon_diff_r), H8)
        minimum    == Min(H8 * H8, sin_prod + cos_prod)
        angle      == arccos(minimum)
    IN  IF angle.nan THEN NaN
        ELSE Num(FMul(FMul(degrees(angle.v) * NM_PER_DEG, MILE_FACTOR, H8),
                      KM_PER_MILE, H8))

distance_between(lat1, lon1, lat2, lon2) ==
    LET lat1_r     == radians(lat1)
        lat2_r     == radians(lat2)
        lon_diff_r == radians(lon2 - lon1)
        sin_prod   == FMul(sin(lat1_r), sin(lat2_r), H8)
        cos_prod   == FMul(FMul(cos(lat1_r), cos(lat2_r), H8), cos(lon_diff_r), H8)
        minimum    == Min(H8 * H8, sin_prod + cos_prod)
        angle      == arccos(minimum)
    IN  IF angle.nan THEN NaN
        ELSE Num(FMul(FMul(degrees(angle.v) * NM_PER_DEG, MILE_FACTOR, H8),
                      KM_PER_MILE, H8))

(***************************************************************************)
(* compute_rmse (lines 561-562).  Values are floats in units of 1e-4.      *)
(***************************************************************************)
Max(a, b) == IF a >= b THEN a ELSE b

RECURSIVE SumSeq(_)
SumSeq(s) == IF s = <<>> THEN 0 ELSE Head(s) + SumSeq(Tail(s))

\* np.mean: NaN for an empty array, else the sum divided by the length.
mean(s) == IF s = <<>> THEN NaN ELSE Num(RDiv(SumSeq(s), Len(s)))

\* np.sqrt: NaN for a negative number, else the greatest r with r*r <= v
\* (r and v in units of 1e-4, so the test is r*r <= v * H4^2, made exactly
\* by splitting r in base H4).
SqrtCap == 4000000

SqLeq(r, v) ==
    LET r1 == r \div H4
        r0 == r % H4
        w  == 2 * r1 * r0 * H4 + r0 * r0
        q  == r1 * r1 + w \div (H4 * H4)
    IN  q < v \/ (q = v /\ w % (H4 * H4) = 0)

RECURSIVE SqrtBisect(_, _, _)
SqrtBisect(v, lo, hi) ==
    IF hi - lo <= 1 THEN lo
    ELSE LET mid == (lo + hi) \div 2
         IN  IF SqLeq(mid, v) THEN SqrtBisect(v, mid, hi)
             ELSE SqrtBisect(v, lo, mid)

sqrt(f) ==
    IF f.nan \/ f.v < 0 THEN NaN
    ELSE Num(SqrtBisect(f.v, 0, Min(Max(f.v, H4 * H4), SqrtCap) + 1))

\* (actual - predicted) ** 2, element by element.
SquaredErrors(actual, predicted) ==
    [i \in 1..Len(actual) |->
        FMul(actual[i] - predicted[i], actual[i] - predicted[i], H4)]

\* Variants with a slip: the square root of the mean error, the mean error
\* itself, and the error taken against the mean prediction.
compute_rmse_bias(actual, predicted) ==
    sqrt(mean([i \in 1..Len(actual) |-> actual[i] - predicted[i]]))

compute_rmse_signed(actual, predicted) ==
    mean([i \in 1..Len(actual) |-> actual[i] - predicted[i]])

compute_rmse_centered(actual, predicted) ==
    LET m == mean(predicted)
    IN  IF m.nan THEN NaN
        ELSE sqrt(mean([i \in 1..Len(actual) |->
                 FMul(actual[i] - m.v, actual[i] - m.v, H4)]))

compute_rmse(actual, predicted) ==
    sqrt(mean(SquaredErrors(actual, predicted)))

(***************************************************************************)
(* Dataframes.  A dataframe is [cols, rows]: the column names in order and *)
(* the rows in order, each row a function from column name to value.       *)
(* Longitudes and latitudes are whole degrees, passenger counts integers,  *)
(* amounts are in units of 1e-4 dollar, trip distances in 1e-4 mile.       *)
(* Rows are compared by value: the pandas index is not modelled (no cell   *)
(* reads it and to_csv writes index=False).                                *)
(***************************************************************************)
\* The columns of the BigQuery result "trips", in SELECT order (lines 93-102).
TripsCols ==
    <<"pickup_datetime", "pickup_longitude", "pickup_latitude",
      "dropoff_longitude", "dropoff_latitude", "passenger_count",
      "trip_distance", "tolls_amount", "fare_amount", "total_amount">>

Range(s) == {s[i] : i \in 1..Len(s)}

IndexOf(s, e) == CHOOSE i \in 1..Len(s) : s[i] = e /\ \A j \in 1..(i - 1) : s[j] # e

\* list.remove(e): the list without the first occurrence of e.
Remove(s, e) ==
    LET k == IndexOf(s, e)
    IN  [i \in 1..(Len(s) - 1) |-> IF i < k THEN s[i] ELSE s[i + 1]]

\* del df[c]
DelCol(df, c) ==
    [cols |-> Remove(df.cols, c),
     rows |-> [i \in 1..Len(df.rows) |->
                 [k \in DOMAIN df.rows[i] \ {c} |-> df.rows[i][k]]]]

\* df[c]: a column as a sequence.
Col(df, c) == [i \in 1..Len(df.rows) |-> df.rows[i][c]]

EmptyFrame == [cols |-> <<>>, rows |-> <<>>]

(***************************************************************************)
(* The BigQuery cells (lines 91-106, 177-194 and 610-638).  The table      *)
(* nyc-tlc.yellow.trips is a dataframe whose pickup_datetime is a          *)
(* TIMESTAMP: <<year, month, day, hour, minute, second>>, in UTC.          *)
(***************************************************************************)
Pad2(n) == IF n < 10 THEN "0" \o ToString(n) ELSE ToString(n)

\* FORMAT_TIMESTAMP("%Y-%m-%d %H:%M:%S %Z", ts)
FORMAT_TIMESTAMP(ts) ==
    ToString(ts[1]) \o "-" \o Pad2(ts[2]) \o "-" \o Pad2(ts[3]) \o " "
    \o Pad2(ts[4]) \o ":" \o Pad2(ts[5]) \o ":" \o Pad2(ts[6]) \o " UTC"

\* FARM_FINGERPRINT(CAST(ts AS STRING)): a function of the timestamp alone.
\* The hash itself is not computed: the timestamps the model uses are given
\* values of both signs that put them in the sample of the trips cells
\* (remainder 1 modulo 100000), in the sample of validation_query
\* (remainder 2 modulo 10000) or in neither.
FARM_FINGERPRINT(ts) ==
    CASE ts = <<2012, 2, 27, 9, 19, 10>> -> 4100001
      [] ts = <<2014, 5, 20, 23, 9, 0>>  -> -2300001
      [] ts = <<2013, 4, 18, 8, 48, 0>>  -> 700001
      [] ts = <<2010, 1, 15, 12, 0, 0>>  -> -100001
      [] ts = <<2009, 11, 3, 7, 5, 59>>  -> 900001
      [] ts = <<2011, 7, 4, 18, 30, 5>>  -> 50002
      [] ts = <<2015, 3, 9, 6, 45, 30>>  -> -120002
      [] ts = <<2012, 12, 31, 23, 59, 59>> -> 880002
      [] OTHER -> 123456

\* MOD(x, y) of BigQuery: the remainder has the sign of x.
MOD(x, y) == Sgn(x) * (Abs(x) % y)

\* ABS(MOD(FARM_FINGERPRINT(CAST(pickup_datetime AS STRING)), modulus)) = bucket
InSample(r, modulus, bucket) ==
    Abs(MOD(FARM_FINGERPRINT(r["pickup_datetime"]), modulus)) = bucket

\* The WHERE clause of the trips cells (line 106; lines 192-194 add nothing
\* to it: after the comment of TODO 3 comes a bare AND).
TripsSample(r) == InSample(r, 100000, 1)

\* The query of lines 92-106: the sampled rows, the timestamp formatted.
bigquery_trips(tb) ==
    LET rows == SelectSeq(tb.rows, TripsSample)
    IN  [cols |-> TripsCols,
         rows |-> [i \in 1..Len(rows) |->
                     [rows[i] EXCEPT !["pickup_datetime"] = FORMAT_TIMESTAMP(@)]]]

\* The conditions of validation_query's WHERE clause after the sampling
\* condition (lines 624-634).  fare_amount is the table's column, not the
\* alias of the SELECT list.
validation_filter(r) ==
    /\ r["trip_distance"] > 0
    /\ r["fare_amount"] >= 25000
    /\ r["pickup_longitude"] > -78
    /\ r["pickup_longitude"] < -70
    /\ r["dropoff_longitude"] > -78
    /\ r["dropoff_longitude"] < -70
    /\ r["pickup_latitude"] > 37
    /\ r["pickup_latitude"] < 45
    /\ r["dropoff_latitude"] > 37
    /\ r["dropoff_latitude"] < 45
    /\ r["passenger_count"] > 0

\* The WHERE clause of validation_query (lines 622-634).
validation_where(r) == InSample(r, 10000, 2) /\ validation_filter(r)

\* The SELECT list of validation_query (lines 611-618).
ValidationCols ==
    <<"fare_amount", "pickup_datetime", "pickuplon", "pickuplat", "dropofflon",
      "dropofflat", "passengers", "key">>
validation_select(r) ==
    [c \in Range(ValidationCols) |->
        CASE c = "fare_amount"     -> r["tolls_amount"] + r["fare_amount"]
          [] c = "pickup_datetime" -> r["pickup_datetime"]
          [] c = "pickuplon"       -> r["pickup_longitude"]
          [] c = "pickuplat"       -> r["pickup_latitude"]
          [] c = "dropofflon"      -> r["dropoff_longitude"]
          [] c = "dropofflat"      -> r["dropoff_latitude"]
          [] c = "passengers"      -> r["passenger_count"] * 1
          [] c = "key"             -> "unused"]

\* validation_query run on the table: the rows it selects, in table order
\* (the query has no ORDER BY: the order of the result is any).
validation_query(tb) ==
    LET rows == SelectSeq(tb.rows, validation_where)
    IN  [cols |-> ValidationCols,
         rows |-> [i \in 1..Len(rows) |-> validation_select(rows[i])]]

(***************************************************************************)
(* preprocess (lines 352-374)                                              *)
(***************************************************************************)
\* Variant with a slip: the upper bound of dropoff_latitude is not strict.
qc_loose(r) ==
    /\ r["pickup_longitude"] > -78
    /\ r["pickup_longitude"] < -70
    /\ r["dropoff_longitude"] > -78
    /\ r["dropoff_longitude"] < -70
    /\ r["pickup_latitude"] > 37
    /\ r["pickup_latitude"] < 45
    /\ r["dropoff_latitude"] > 37
    /\ r["dropoff_latitude"] <= 45
    /\ r["passenger_count"] > 0

\* The quality-control mask of one row (lines 359-372): np.all of nine
\* strict comparisons.
qc(r) ==
    /\ r["pickup_longitude"] > -78
    /\ r["pickup_longitude"] < -70
    /\ r["dropoff_longitude"] > -78
    /\ r["dropoff_longitude"] < -70
    /\ r["pickup_latitude"] > 37
    /\ r["pickup_latitude"] < 45
    /\ r["dropoff_latitude"] > 37
    /\ r["dropoff_latitude"] < 45
    /\ r["passenger_count"] > 0

\* Variant with a slip: trip_distance is not deleted.
preprocess_keeps_distance(trips_in) ==
    LET t0 == [trips_in EXCEPT !.rows = [i \in 1..Len(trips_in.rows) |->
                [trips_in.rows[i] EXCEPT !["fare_amount"] =
                    trips_in.rows[i]["fare_amount"]
                    + trips_in.rows[i]["tolls_amount"]]]]
        t1 == DelCol(t0, "tolls_amount")
        t2 == DelCol(t1, "total_amount")
    IN  [cols |-> t2.cols, rows |-> SelectSeq(t2.rows, qc)]

\* Variant with a slip: the target is taken from total_amount.
preprocess_total(trips_in) ==
    LET t0 == [trips_in EXCEPT !.rows = [i \in 1..Len(trips_in.rows) |->
                [trips_in.rows[i] EXCEPT !["fare_amount"] =
                    trips_in.rows[i]["total_amount"]]]]
        t1 == DelCol(t0, "tolls_amount")
        t2 == DelCol(t1, "total_amount")
        t3 == DelCol(t2, "trip_distance")
    IN  [cols |-> t3.cols, rows |-> SelectSeq(t3.rows, qc)]

preprocess(trips_in) ==
    LET t0 == [trips_in EXCEPT !.rows =
                 [i \in 1..Len(trips_in.rows) |->
                    [trips_in.rows[i] EXCEPT !["fare_amount"] =
                        trips_in.rows[i]["fare_amount"]
                        + trips_in.rows[i]["tolls_amount"]]]]
        t1 == DelCol(t0, "tolls_amount")
        t2 == DelCol(t1, "total_amount")
        t3 == DelCol(t2, "trip_distance")
    IN  [cols |-> t3.cols, rows |-> SelectSeq(t3.rows, qc)]

(***************************************************************************)
(* The train / validation / test split (lines 401-407)                     *)
(***************************************************************************)
\* DataFrame.sample(frac=1): the rows in any order.
RECURSIVE Perms(_)
Perms(s) ==
    IF s = <<>> THEN {<<>>}
    ELSE UNION { { <<x>> \o t : t \in Perms(Remove(s, x)) } : x \in Range(s) }

\* DataFrame.sample(frac=1) as tried here: every order of the rows when at
\* most MaxDistinct of them differ, and otherwise three of the orders (as
\* they are, reversed, and cut in the middle with the halves exchanged).
MaxDistinct == 3
Reverse(s) == [i \in 1..Len(s) |-> s[Len(s) + 1 - i]]
Rotate(s) ==
    SubSeq(s, (Len(s) \div 2) + 1, Len(s)) \o SubSeq(s, 1, Len(s) \div 2)
sample(rows) ==
    IF Cardinality(Range(rows)) <= MaxDistinct THEN Perms(rows)
    ELSE {rows, Reverse(rows), Rotate(rows)}

\* The largest power of two below k, for k >= 2.
RECURSIVE Pow2From(_, _)
Pow2From(k, p) == IF 2 * p < k THEN Pow2From(k, 2 * p) ELSE p
Pow2Below(k) == Pow2From(k, 1)

\* int(n * 0.70) and int(n * 0.15): the float64 product truncated toward
\* zero.  The double nearest 0.15 lies above 0.15, and the product never
\* crosses a whole number: the result is floor(15 n / 100).  The double
\* nearest 0.70 is 0.7 - 0.4 * 2^-53.  Where 0.7 n is not whole the result
\* is floor(7 n / 10); where it is a whole number k (n = 10 m, k = 7 m) the
\* exact product is k - 4 m * 2^-53, and with 2^E < k <= 2^(E+1) the
\* doubles below k are 2^(E-52) apart: the product rounds to k when
\* 4 m <= 2^E (a tie goes to k, whose last bit is 0) and below k otherwise,
\* and int() then gives k - 1 (n = 90: int(62.99999999999999) = 62).
SizeOf_ceiling(n, percent) == (n * percent + 99) \div 100

SizeOf(n, percent) ==
    LET exact == (n * percent) \div 100
        m     == n \div 10
    IN  IF percent = 70 /\ n > 0 /\ n % 10 = 0 /\ 4 * m > Pow2Below(7 * m)
        THEN exact - 1
        ELSE exact

\* shuffled.iloc[from : to, :] with 0-based, end-exclusive bounds.
Iloc(df, from, to) ==
    [cols |-> df.cols,
     rows |-> SubSeq(df.rows, from + 1, IF to < Len(df.rows) THEN to ELSE Len(df.rows))]

(***************************************************************************)
(* to_csv (lines 459-468) and pd.read_csv (lines 585-587).  A file is the  *)
(* sequence of its lines, a line the sequence of its comma-separated       *)
(* fields; a numeric field is represented by the number its text denotes.  *)
(***************************************************************************)
\* outdf.loc[:, "key"] = np.arange(0, len(outdf)): a new last column, or
\* the existing column "key" overwritten in place.
WithKey(df) ==
    [cols |-> IF "key" \in Range(df.cols) THEN df.cols ELSE Append(df.cols, "key"),
     rows |-> [i \in 1..Len(df.rows) |->
                 [k \in DOMAIN df.rows[i] \cup {"key"} |->
                     IF k = "key" THEN i - 1 ELSE df.rows[i][k]]]]

\* DataFrame.to_csv(filename, header=..., index=False)
CsvLines(df, header) ==
    (IF header THEN <<df.cols>> ELSE <<>>)
    \o [i \in 1..Len(df.rows) |->
          [j \in 1..Len(df.cols) |-> df.rows[i][df.cols[j]]]]

\* Variant with a slip: pandas' default header=True is left in place.
to_csv_header(df) ==
    LET outdf == WithKey(df)
        cols  == <<"fare_amount">> \o Remove(outdf.cols, "fare_amount")
    IN  CsvLines([cols |-> cols, rows |-> outdf.rows], TRUE)

\* to_csv(df, filename): the lines written to the file.
to_csv(df) ==
    LET outdf == WithKey(df)
        cols  == <<"fare_amount">> \o Remove(outdf.cols, "fare_amount")
    IN  CsvLines([cols |-> cols, rows |-> outdf.rows], FALSE)

\* Lines 575-584.  The lab leaves FEATURES and TARGET blank; they are
\* filled with the names the benchmark reads (lines 557 and 568, and the
\* aliases of lines 612-618), in the order of the columns to_csv writes.
FEATURES == <<"pickuplon", "pickuplat", "dropofflon", "dropofflat", "passengers">>
TARGET == "fare_amount"
columns == <<TARGET>> \o <<"pickup_datetime">> \o FEATURES \o <<"key">>

\* pd.read_csv(file, header=None, names=columns): every line is a row and
\* the names are given to the fields by position.
read_csv(lines, names) ==
    [cols |-> names,
     rows |-> [i \in 1..Len(lines) |->
                 [c \in Range(names) |-> lines[i][IndexOf(names, c)]]]]

(***************************************************************************)
(* The benchmark (lines 555-592)                                           *)
(***************************************************************************)
\* a / b for a >= 0, b > 0 in the same unit, as a float in units of 1e-8,
\* by long division in base 100; division by zero gives no usable number.
RECURSIVE DivDigits(_, _, _)
DivDigits(r, b, n) ==
    IF n = 0 THEN (IF 2 * r >= b THEN 1 ELSE 0)
    ELSE LET t == r * 100
         IN  (t \div b) * (100 ^ (n - 1)) + DivDigits(t % b, b, n - 1)

FDiv(a, b) ==
    IF a.nan \/ b.nan \/ b.v = 0 THEN NaN
    ELSE Num(Sgn(a.v) * Sgn(b.v)
             * ((Abs(a.v) \div Abs(b.v)) * H8 * H8
                + DivDigits(Abs(a.v) % Abs(b.v), Abs(b.v), 4)))

\* estimate_distance(df): distance_between, row by row.
estimate_distance(df) ==
    [i \in 1..Len(df.rows) |->
        distance_between(df.rows[i]["pickuplat"], df.rows[i]["pickuplon"],
                         df.rows[i]["dropofflat"], df.rows[i]["dropofflon"])]

\* The values of a sequence of floats (no row of the New York area gives NaN).
Values(fs) == [i \in 1..Len(fs) |-> fs[i].v]

\* df["fare_amount"].mean() / estimate_distance(df).mean()
mean_rate(df) ==
    FDiv(mean(Col(df, "fare_amount")), mean(Values(estimate_distance(df))))

\* The constant of line 639, 2.59988 $/km, in units of 1e-8.
FINAL_RATE == 259988000

\* Variant with a slip: the rate of line 639 instead of the argument.
print_rmse_fixed_rate(df, rate) ==
    compute_rmse(Col(df, "fare_amount"),
                 [i \in 1..Len(df.rows) |->
                     FMul(FINAL_RATE, estimate_distance(df)[i].v, H8)])

\* print_rmse(df, rate, name): the number printed.  A NaN rate makes every
\* prediction NaN, and so the result.
print_rmse(df, rate) ==
    IF rate.nan THEN NaN
    ELSE compute_rmse(Col(df, "fare_amount"),
                      [i \in 1..Len(df.rows) |->
                          FMul(rate.v, estimate_distance(df)[i].v, H8)])

(***************************************************************************)
(* State                                                                   *)
(***************************************************************************)
VARIABLES
    dpc,        \* distance_between: "off", "ready" (arguments given), "done"
    dcall,      \* the arguments of the call of distance_between
    dret,       \* what the call returned
    rpc,        \* compute_rmse: "off", "ready", "done"
    rcall,      \* the arguments of the call of compute_rmse
    rret,       \* what the call returned
    pc,         \* the notebook: the statement reached ("off": not running)
    table,      \* the BigQuery table nyc-tlc.yellow.trips
    trips,      \* the dataframe the BigQuery cell stored
    tripsqc,    \* preprocess(trips)
    shuffled,   \* tripsqc.sample(frac=1)
    df_train,   \* the three dataframes of the split, later of read_csv
    df_valid,
    df_test,
    files,      \* the files written: file name -> lines
    rate,       \* the benchmark's rate
    printed,    \* the RMSEs printed: name -> number
    tpc,        \* train_evaluate: "off", or the statement reached
    targs,      \* the arguments of the call of train_evaluate
    tframes,    \* its dataframes df_train and df_validation
    tpipeline,  \* its pipeline: what it was fitted on, once fitted
    tfiles,     \* the files it wrote: the paths, local and on GCS
    tstdout,    \* the lines it printed
    lpc,        \* lab-01: "off", or the cell the notebook has reached
    hpconfig,   \* the contents of hptuning_config.yaml
    jobs,       \* the number of training jobs submitted so far
    job,        \* the hyperparameter tuning job on AI Platform Training
    response,   \* the kernel's variable response
    best,       \* the kernel's variables alpha and max_iter
    lout,       \* what the cells printed or displayed
    lfailed,    \* the failure of the external call of the cell, if any
    lerr,       \* the exception that aborted the cell, if any
    vpc,        \* the Vertex notebook: "off", or the cell it has reached
    clock,      \* the time: half hours since 2021-11-07 05:00:00 UTC
    zone,       \* the time zone of the kernel
    TIMESTAMP,  \* the kernel's variables TIMESTAMP, OUTDIR and
    OUTDIR,     \* MODEL_DISPLAY_NAME
    MODEL_DISPLAY_NAME,
    job_spec,   \* the compiled pipeline
    tasks,      \* the state of each task of the pipeline run
    stamped,    \* the time at which the TIMESTAMP cell ran
    named,      \* the resource names the runs so far have made, with the
                \* time at which the TIMESTAMP cell of their run ran
    runs,       \* the number of runs of the notebook started
    fpc,        \* the flowers notebook: "off", "build", "ready" (dataset
                \* built), "iterating", "done" (end of sequence)
    gcs,        \* the CSV files on Cloud Storage: path -> lines
    ds,         \* the dataset load_dataset returned
    cache,      \* the elements .cache() holds
    rest,       \* the lines of this pass not yet taken, by number
    pending,    \* the elements gathered for the next batch
    batches,    \* the batches this iteration has delivered
    pulls,      \* the number of elements taken so far
    passes      \* the number of iterations started

nbvars == <<pc, table, trips, tripsqc, shuffled, df_train, df_valid, df_test,
            files, rate, printed>>
dvars == <<dpc, dcall, dret>>
rvars == <<rpc, rcall, rret>>
tvars == <<tpc, targs, tframes, tpipeline, tfiles, tstdout>>
lvars == <<lpc, hpconfig, jobs, job, response, best, lout, lfailed, lerr>>
vvars == <<vpc, clock, zone, TIMESTAMP, OUTDIR, MODEL_DISPLAY_NAME, job_spec,
           tasks, stamped, named, runs>>
fvars == <<fpc, gcs, ds, cache, rest, pending, batches, pulls, passes>>
xvars == <<tvars, lvars, vvars, fvars>>
vars == <<dvars, rvars, nbvars, xvars>>

DistOff == dpc = "off" /\ dcall = <<>> /\ dret = NaN
RmseOff == rpc = "off" /\ rcall = <<>> /\ rret = NaN

NoFrames == [df_train |-> EmptyFrame, df_validation |-> EmptyFrame]
NoPipeline ==
    [fitted |-> FALSE, X |-> EmptyFrame, y |-> <<>>, alpha |-> 0, max_iter |-> 0]
TrainOff ==
    /\ tpc = "off"
    /\ targs = <<>>
    /\ tframes = NoFrames
    /\ tpipeline = NoPipeline
    /\ tfiles = {}
    /\ tstdout = <<>>
NoConfig ==
    [goal |-> "", maxTrials |-> 0, maxParallelTrials |-> 0,
     hyperparameterMetricTag |-> "", enableTrialEarlyStopping |-> FALSE]
NoJob == [name |-> "", state |-> "NONE", config |-> NoConfig, trials |-> <<>>]
NoTrial == [trialId |-> 0, state |-> "NONE", alpha |-> 0, max_iter |-> 0, accuracy |-> 0]
Unbound == [bound |-> FALSE, name |-> "", trial |-> NoTrial]
LabAt(start) ==
    /\ lpc = start
    /\ hpconfig = NoConfig
    /\ jobs = 0
    /\ job = NoJob
    /\ response = Unbound
    /\ best = [bound |-> FALSE, alpha |-> 0, max_iter |-> 0]
    /\ lout = <<>>
    /\ lfailed = "none"
    /\ lerr = "none"
TaskNames == {"train", "model_upload", "endpoint_create", "model_deploy"}
NoSpec == [name |-> "", display_name |-> "", model_display_name |-> "",
           after |-> [t \in TaskNames |-> {}]]
VertexAt(start, z) ==
    /\ vpc = start
    /\ clock = 0
    /\ zone = z
    /\ TIMESTAMP = ""
    /\ OUTDIR = ""
    /\ MODEL_DISPLAY_NAME = ""
    /\ job_spec = NoSpec
    /\ tasks = [t \in TaskNames |-> "PENDING"]
    /\ stamped = 0
    /\ named = {}
    /\ runs = 0
NoDataset == [filenames |-> "", training |-> FALSE, shuffle |-> 0, count |-> 0,
              batch_size |-> 0]
FlowersAt(start, stored) ==
    /\ fpc = start
    /\ gcs = stored
    /\ ds = NoDataset
    /\ cache = <<>>
    /\ rest = <<>>
    /\ pending = <<>>
    /\ batches = <<>>
    /\ pulls = 0
    /\ passes = 0
FlowersOff == FlowersAt("off", <<>>)
OthersOff == TrainOff /\ LabAt("off") /\ VertexAt("off", "UTC") /\ FlowersOff

\* The notebook's variables before its first BigQuery cell has run.
NotebookAt(start, t) ==
    /\ pc = start
    /\ table = t
    /\ trips = EmptyFrame
    /\ tripsqc = EmptyFrame
    /\ shuffled = EmptyFrame
    /\ df_train = EmptyFrame
    /\ df_valid = EmptyFrame
    /\ df_test = EmptyFrame
    /\ files = <<>>
    /\ rate = NaN
    /\ printed = <<>>

(***************************************************************************)
(* distance_between applied to points drawn from a small set               *)
(***************************************************************************)
\* Latitudes: the equator and one degree north of it, two latitudes of the
\* New York area, low and high latitudes, and mirror images (for antipodes).
Lats == {-87, -41, -8, 0, 1, 8, 40, 41}
\* Longitudes: two of the New York area, Greenwich and the date line.
Lons == {-74, -73, 0, 180}

CallDistance ==
    /\ dpc = "ready"
    /\ dret' = distance_between(dcall.lat1, dcall.lon1, dcall.lat2, dcall.lon2)
    /\ dpc' = "done"
    /\ UNCHANGED <<dcall, rvars, nbvars, xvars>>

InitDist ==
    /\ dpc = "ready"
    /\ dcall \in [lat1 : Lats, lon1 : Lons, lat2 : Lats, lon2 : Lons]
    /\ dret = NaN
    /\ RmseOff
    /\ NotebookAt("off", EmptyFrame)
    /\ OthersOff
NextDist == CallDistance
SpecDist == InitDist /\ [][NextDist]_vars

(***************************************************************************)
(* compute_rmse applied to sequences drawn from a small set                *)
(***************************************************************************)
MaxLen == 3
\* $0, $2.50 and $10 in units of 1e-4.
Amounts == {0, 25000, 100000}

CallRmse ==
    /\ rpc = "ready"
    /\ rret' = compute_rmse(rcall.actual, rcall.predicted)
    /\ rpc' = "done"
    /\ UNCHANGED <<rcall, dvars, nbvars, xvars>>

InitRmse ==
    /\ rpc = "ready"
    /\ \E n \in 0..MaxLen :
           rcall \in [actual : [1..n -> Amounts], predicted : [1..n -> Amounts]]
    /\ rret = NaN
    /\ DistOff
    /\ NotebookAt("off", EmptyFrame)
    /\ OthersOff
NextRmse == CallRmse
SpecRmse == InitRmse /\ [][NextRmse]_vars

(***************************************************************************)
(* The notebook, cell by cell and statement by statement                   *)
(***************************************************************************)
\* One row of trips.
Ride(dt, plon, plat, dlon, dlat, pax, dist, tolls, fare, total) ==
    [c \in Range(TripsCols) |->
        CASE c = "pickup_datetime"   -> dt
          [] c = "pickup_longitude"  -> plon
          [] c = "pickup_latitude"   -> plat
          [] c = "dropoff_longitude" -> dlon
          [] c = "dropoff_latitude"  -> dlat
          [] c = "passenger_count"   -> pax
          [] c = "trip_distance"     -> dist
          [] c = "tolls_amount"      -> tolls
          [] c = "fare_amount"       -> fare
          [] c = "total_amount"      -> total]

\* Three kinds of ride: a toll ride, a ride without toll, and a record
\* without passengers.
RideA == Ride("2012-02-27 09:19:10 UTC", -74, 40, -73, 41, 1,
              1140000, 500000, 4000000, 4700000)
RideB == Ride("2014-05-20 23:09:00 UTC", -74, 40, -73, 40, 2,
              700000, 0, 3000000, 3000000)
RideX == Ride("2013-04-18 08:48:00 UTC", -74, 41, -73, 41, 0,
              690000, 0, 2900000, 2900000)
Catalogue == <<RideA, RideB, RideX>>

\* Records of the kinds the notebook finds in the table (lines 160-164): a
\* ride coded as zero distance and a fare below the minimum cab fare.
RideZero == Ride("2010-01-15 12:00:00 UTC", -74, 40, -73, 40, 1,
                 0, 0, 3000000, 3000000)
RideCheap == Ride("2009-11-03 07:05:59 UTC", -74, 40, -73, 40, 1,
                  700000, 0, 24900, 24900)
\* Rides of the sample of validation_query, one of them of zero distance,
\* and a ride of neither sample.
RideV == Ride("2011-07-04 18:30:05 UTC", -74, 40, -73, 40, 1,
              700000, 50000, 2900000, 3000000)
RideW == Ride("2015-03-09 06:45:30 UTC", -74, 41, -73, 41, 3,
              690000, 0, 3100000, 3500000)
RideVZero == Ride("2012-12-31 23:59:59 UTC", -74, 40, -73, 40, 1,
                  0, 0, 3000000, 3000000)
RideOut == Ride("2016-06-01 00:00:00 UTC", -74, 40, -73, 41, 1,
                1140000, 0, 4000000, 4000000)

\* The TIMESTAMP a text of the form "YYYY-MM-DD hh:mm:ss UTC" denotes, for
\* the rides above.
TimestampOf(text) ==
    CASE text = "2012-02-27 09:19:10 UTC" -> <<2012, 2, 27, 9, 19, 10>>
      [] text = "2014-05-20 23:09:00 UTC" -> <<2014, 5, 20, 23, 9, 0>>
      [] text = "2013-04-18 08:48:00 UTC" -> <<2013, 4, 18, 8, 48, 0>>
      [] text = "2010-01-15 12:00:00 UTC" -> <<2010, 1, 15, 12, 0, 0>>
      [] text = "2009-11-03 07:05:59 UTC" -> <<2009, 11, 3, 7, 5, 59>>
      [] text = "2011-07-04 18:30:05 UTC" -> <<2011, 7, 4, 18, 30, 5>>
      [] text = "2015-03-09 06:45:30 UTC" -> <<2015, 3, 9, 6, 45, 30>>
      [] text = "2012-12-31 23:59:59 UTC" -> <<2012, 12, 31, 23, 59, 59>>
      [] text = "2016-06-01 00:00:00 UTC" -> <<2016, 6, 1, 0, 0, 0>>

\* Rides as the table stores them: the pickup time is a TIMESTAMP.
Stored(rides) ==
    [cols |-> TripsCols,
     rows |-> [i \in 1..Len(rides) |->
                 [rides[i] EXCEPT !["pickup_datetime"] = TimestampOf(@)]]]

\* The query results tried: the first n rides of the catalogue repeated,
\* starting at any of its rides.
MaxTrips == 10
Dataset(n, k) ==
    [cols |-> TripsCols,
     rows |-> [i \in 1..n |-> Catalogue[((i + k) % Len(Catalogue)) + 1]]]

\* The tables tried: the rides of such a result and, from the sample of
\* validation_query and from neither sample, two to four more rides.
Table(n, k) ==
    Stored(Dataset(n, k).rows
           \o SubSeq(<<RideV, RideVZero, RideW, RideOut>>, 1, k + 1))

\* The first trips cell (lines 91-106).
QueryTrips ==
    /\ pc = "query"
    /\ trips' = bigquery_trips(table)
    /\ pc' = "queried"
    /\ UNCHANGED <<table, tripsqc, shuffled, df_train, df_valid, df_test, files,
                   rate, printed, dvars, rvars, xvars>>

\* The second trips cell (lines 177-194).  Its query ends in a bare AND
\* (TODO 3 is not filled in): BigQuery rejects it, the cell magic reports
\* the error and stores nothing, and trips keeps the result of the first.
QueryTripsTodo3 ==
    /\ pc = "queried"
    /\ pc' = "start"
    /\ UNCHANGED <<table, trips, tripsqc, shuffled, df_train, df_valid, df_test,
                   files, rate, printed, dvars, rvars, xvars>>

\* tripsqc = preprocess(trips)   (line 377)
Preprocess ==
    /\ pc = "start"
    /\ tripsqc' = preprocess(trips)
    /\ pc' = "qc"
    /\ UNCHANGED <<table, trips, shuffled, df_train, df_valid, df_test, files, rate,
                   printed, dvars, rvars, xvars>>

\* The split cell (lines 401-407).
Split ==
    /\ pc = "qc"
    /\ \E order \in sample(tripsqc.rows) :
        LET s         == [cols |-> tripsqc.cols, rows |-> order]
            trainsize == SizeOf(Len(Col(s, "fare_amount")), 70)
            validsize == SizeOf(Len(Col(s, "fare_amount")), 15)
        IN  /\ shuffled' = s
            /\ df_train' = Iloc(s, 0, trainsize)
            /\ df_valid' = Iloc(s, trainsize, trainsize + validsize)
            /\ df_test' = Iloc(s, trainsize + validsize, Len(s.rows))
    /\ pc' = "split"
    /\ UNCHANGED <<table, trips, tripsqc, files, rate, printed, dvars, rvars, xvars>>

\* One call of to_csv (lines 471-473).
WriteCsv(at, df, filename, next) ==
    /\ pc = at
    /\ files' = (filename :> to_csv(df)) @@ files
    /\ pc' = next
    /\ UNCHANGED <<table, trips, tripsqc, shuffled, df_train, df_valid, df_test, rate,
                   printed, dvars, rvars, xvars>>

WriteTrain == WriteCsv("split", df_train, "taxi-train.csv", "wrote_train")
WriteValid == WriteCsv("wrote_train", df_valid, "taxi-valid.csv", "wrote_valid")
WriteTest == WriteCsv("wrote_valid", df_test, "taxi-test.csv", "written")

\* The benchmark cell: the three read_csv (lines 585-587).
ReadCsvs ==
    /\ pc = "written"
    /\ df_train' = read_csv(files["taxi-train.csv"], columns)
    /\ df_valid' = read_csv(files["taxi-valid.csv"], columns)
    /\ df_test' = read_csv(files["taxi-test.csv"], columns)
    /\ pc' = "read"
    /\ UNCHANGED <<table, trips, tripsqc, shuffled, files, rate, printed, dvars, rvars, xvars>>

\* rate = ...   (line 588)
ComputeRate ==
    /\ pc = "read"
    /\ rate' = mean_rate(df_train)
    /\ pc' = "rated"
    /\ UNCHANGED <<table, trips, tripsqc, shuffled, df_train, df_valid, df_test, files,
                   printed, dvars, rvars, xvars>>

\* One call of print_rmse (lines 590-592).
PrintRmse(at, df, name, next) ==
    /\ pc = at
    /\ printed' = (name :> print_rmse(df, rate)) @@ printed
    /\ pc' = next
    /\ UNCHANGED <<table, trips, tripsqc, shuffled, df_train, df_valid, df_test, files,
                   rate, dvars, rvars, xvars>>

PrintTrain == PrintRmse("rated", df_train, "Train", "printed_train")
PrintValid == PrintRmse("printed_train", df_valid, "Valid", "printed_valid")
PrintTest == PrintRmse("printed_valid", df_test, "Test", "benchmarked")

\* Variant with a slip: the RMSE is printed for the validation part of
\* the split instead of the result of validation_query.
FinalValidationOnSplit ==
    /\ pc = "benchmarked"
    /\ printed' = ("Final Validation Set" :> print_rmse(df_valid, Num(FINAL_RATE)))
                  @@ printed
    /\ pc' = "final"
    /\ UNCHANGED <<table, trips, tripsqc, shuffled, df_train, df_valid, df_test,
                   files, rate, dvars, rvars, xvars>>

\* The last cell (lines 636-639): validation_query run on the table, its
\* rows in any order, and the RMSE at the fixed rate printed.
FinalValidation ==
    /\ pc = "benchmarked"
    /\ \E order \in Perms(validation_query(table).rows) :
        LET df == [cols |-> ValidationCols, rows |-> order]
        IN  /\ df_valid' = df
            /\ printed' = ("Final Validation Set" :> print_rmse(df, Num(FINAL_RATE)))
                          @@ printed
    /\ pc' = "final"
    /\ UNCHANGED <<table, trips, tripsqc, shuffled, df_train, df_test, files,
                   rate, dvars, rvars, xvars>>

Init ==
    /\ DistOff
    /\ RmseOff
    /\ \E n \in 1..MaxTrips, k \in 1..Len(Catalogue) :
           NotebookAt("query", Table(n, k))
    /\ OthersOff

Next ==
    \/ QueryTrips
    \/ QueryTripsTodo3
    \/ Preprocess
    \/ Split
    \/ WriteTrain
    \/ WriteValid
    \/ WriteTest
    \/ ReadCsvs
    \/ ComputeRate
    \/ PrintTrain
    \/ PrintValid
    \/ PrintTest
    \/ FinalValidation

Spec == Init /\ [][Next]_vars

(***************************************************************************)
(* preprocess applied to dataframes whose rows sit on and next to the      *)
(* bounds of the quality control                                           *)
(***************************************************************************)
MaxPreRows == 2

LonEdges == {-78, -77, -71, -70}
LatEdges == {37, 38, 44, 45}

PreRides ==
    {RideA, RideB, [RideA EXCEPT !["passenger_count"] = 0]}
    \cup {RideZero, RideCheap, RideOut}
    \cup {[RideA EXCEPT !["pickup_longitude"] = v] : v \in LonEdges}
    \cup {[RideA EXCEPT !["dropoff_longitude"] = v] : v \in LonEdges}
    \cup {[RideA EXCEPT !["pickup_latitude"] = v] : v \in LatEdges}
    \cup {[RideA EXCEPT !["dropoff_latitude"] = v] : v \in LatEdges}

InitPre ==
    /\ DistOff
    /\ RmseOff
    /\ \E n \in 0..MaxPreRows :
           \E rows \in [1..n -> PreRides] :
               NotebookAt("query", Stored(rows))
    /\ OthersOff
NextPre == QueryTrips \/ QueryTripsTodo3 \/ Preprocess
SpecPre == InitPre /\ [][NextPre]_vars

(***************************************************************************)
(* The split of up to MaxSplitRows rides that all differ                   *)
(***************************************************************************)
MaxSplitRows == 100

\* n rides of the sample of the trips query, all valid, each with its own
\* fare.
SplitRides(n) ==
    [i \in 1..n |-> [RideB EXCEPT !["fare_amount"] = @ + i * 10000]]

InitSplit ==
    /\ DistOff
    /\ RmseOff
    /\ \E n \in 0..MaxSplitRows : NotebookAt("query", Stored(SplitRides(n)))
    /\ OthersOff
NextSplit == QueryTrips \/ QueryTripsTodo3 \/ Preprocess \/ Split
SpecSplit == InitSplit /\ [][NextSplit]_vars

(***************************************************************************)
(* lab-01: the training application train.py (lines 403-470).  A CSV file  *)
(* is the sequence of its lines, the header line first.                    *)
(***************************************************************************)
\* The columns of covertype_dataset.covertype (lines 115-127).
CoverCols ==
    <<"Elevation", "Aspect", "Slope", "Horizontal_Distance_To_Hydrology",
      "Vertical_Distance_To_Hydrology", "Horizontal_Distance_To_Roadways",
      "Hillshade_9am", "Hillshade_Noon", "Hillshade_3pm",
      "Horizontal_Distance_To_Fire_Points", "Wilderness_Area", "Soil_Type",
      "Cover_Type">>

\* pd.read_csv(path): the first line names the columns.
read_csv_header(file) == read_csv(Tail(file), Head(file))

\* pd.concat([a, b]): the rows of a, then the rows of b.
concat(a, b) == [cols |-> a.cols, rows |-> a.rows \o b.rows]

\* Variant with a slip: the validation rows are added in both modes.
load_frames_always_concat(training, validation, hptune) ==
    LET df_tr  == read_csv_header(training)
        df_val == read_csv_header(validation)
    IN  [df_train |-> concat(df_tr, df_val), df_validation |-> df_val]

\* Lines 423-427: the two dataframes train_evaluate works on.
load_frames(training, validation, hptune) ==
    LET df_tr  == read_csv_header(training)
        df_val == read_csv_header(validation)
    IN  [df_train |-> IF ~hptune THEN concat(df_tr, df_val) ELSE df_tr,
         df_validation |-> df_val]

\* Lines 449-453: the pipeline after set_params and fit.  (astype, lines
\* 443-446, changes the dtype of the numeric columns, not their numbers.)
fit(df, alpha, max_iter) ==
    [fitted |-> TRUE, X |-> DelCol(df, "Cover_Type"), y |-> Col(df, "Cover_Type"),
     alpha |-> alpha, max_iter |-> max_iter]

\* gcs_model_path (line 464)
gcs_model_path(job_dir) == job_dir \o "/" \o "model.pkl"

\* Lines 423-427.
TrainRead ==
    /\ tpc = "ready"
    /\ tframes' = load_frames(targs.training, targs.validation, targs.hptune)
    /\ tpc' = "read"
    /\ UNCHANGED <<targs, tpipeline, tfiles, tstdout, dvars, rvars, nbvars, lvars, vvars, fvars>>

\* Lines 429-453.
TrainFit ==
    /\ tpc = "read"
    /\ tstdout' = Append(tstdout, <<"Starting training", targs.alpha, targs.max_iter>>)
    /\ tpipeline' = fit(tframes.df_train, targs.alpha, targs.max_iter)
    /\ tpc' = "fitted"
    /\ UNCHANGED <<targs, tframes, tfiles, dvars, rvars, nbvars, lvars, vvars, fvars>>

\* Lines 455-457, hptune set: the scoring is left to the reader (TODO);
\* the function writes nothing and returns.
TrainScore ==
    /\ tpc = "fitted"
    /\ targs.hptune
    /\ tpc' = "returned"
    /\ UNCHANGED <<targs, tframes, tpipeline, tfiles, tstdout, dvars, rvars, nbvars, lvars, vvars, fvars>>

\* Variant with a slip: the model is saved in both modes.
TrainPickleAlways ==
    /\ tpc = "fitted"
    /\ tfiles' = tfiles \cup {"model.pkl"}
    /\ tpc' = "pickled"
    /\ UNCHANGED <<targs, tframes, tpipeline, tstdout, dvars, rvars, nbvars, lvars, vvars, fvars>>

\* Lines 460-463, hptune not set: the pipeline is pickled to model.pkl.
TrainPickle ==
    /\ tpc = "fitted"
    /\ ~targs.hptune
    /\ tfiles' = tfiles \cup {"model.pkl"}
    /\ tpc' = "pickled"
    /\ UNCHANGED <<targs, tframes, tpipeline, tstdout, dvars, rvars, nbvars, lvars, vvars, fvars>>

\* Lines 464-467: gsutil cp by subprocess.check_call, which raises
\* CalledProcessError when gsutil exits with a non-zero code.
TrainCopy ==
    /\ tpc = "pickled"
    /\ \E copied \in BOOLEAN :
        IF copied
        THEN /\ tfiles' = tfiles \cup {gcs_model_path(targs.job_dir)}
             /\ tstdout' = Append(tstdout, <<"Saved model in", gcs_model_path(targs.job_dir)>>)
             /\ tpc' = "returned"
        ELSE /\ tpc' = "raised CalledProcessError"
             /\ UNCHANGED <<tfiles, tstdout>>
    /\ UNCHANGED <<targs, tframes, tpipeline, dvars, rvars, nbvars, lvars, vvars, fvars>>

\* Lines of the two dataset files: the training and the validation split
\* hold different rows of the table.
CoverLine(elevation, area, cover) ==
    <<elevation, 90, 10, 100, 5, 500, 220, 230, 140, 900, area, "C7745", cover>>
TrainingLines == {CoverLine(2800, "Rawah", 1), CoverLine(3100, "Commanche", 2)}
ValidationLines == {CoverLine(2500, "Cache", 5), CoverLine(3300, "Neota", 0)}

\* alpha in units of 1e-5.
Hyperparameters == {[alpha |-> 100, max_iter |-> 200], [alpha |-> 1, max_iter |-> 300]}

MaxFileRows == 2

InitTrain ==
    /\ tpc = "ready"
    /\ \E nt \in 1..MaxFileRows, nv \in 0..MaxFileRows :
         \E tl \in [1..nt -> TrainingLines], vl \in [1..nv -> ValidationLines] :
           \E hp \in Hyperparameters, hptune \in BOOLEAN :
             targs = [job_dir |-> "gs://artifact-store/jobs/JOB_1",
                      training |-> <<CoverCols>> \o tl,
                      validation |-> <<CoverCols>> \o vl,
                      alpha |-> hp.alpha, max_iter |-> hp.max_iter,
                      hptune |-> hptune]
    /\ tframes = NoFrames
    /\ tpipeline = NoPipeline
    /\ tfiles = {}
    /\ tstdout = <<>>
    /\ DistOff
    /\ RmseOff
    /\ NotebookAt("off", EmptyFrame)
    /\ LabAt("off")
    /\ VertexAt("off", "UTC")
    /\ FlowersOff

NextTrain ==
    \/ TrainRead
    \/ TrainFit
    \/ TrainScore
    \/ TrainPickle
    \/ TrainCopy

SpecTrain == InitTrain /\ [][NextTrain]_vars

(***************************************************************************)
(* lab-01: the hyperparameter tuning cells (lines 574-734) and the tuning  *)
(* job they start on AI Platform Training                                  *)
(***************************************************************************)
\* %%writefile hptuning_config.yaml (lines 574-599): the file written.
hptuning_config ==
    [goal |-> "MAXIMIZE", maxTrials |-> 4, maxParallelTrials |-> 4,
     hyperparameterMetricTag |-> "accuracy", enableTrialEarlyStopping |-> TRUE]

\* JOB_NAME (lines 619 and 743): one name per submission.
JOB_NAME(n) == "JOB_" \o ToString(n)

Running(j) == {i \in 1..Len(j.trials) : j.trials[i].state = "RUNNING"}

\* The accuracies a trial may report, in percent.
Accuracies == {70, 90}

\* The number of times the operator runs the tuning cells.
MaxJobs == 2

WriteConfig ==
    /\ lpc = "write_config"
    /\ hpconfig' = hptuning_config
    /\ lpc' = "submit"
    /\ UNCHANGED <<jobs, job, response, best, lout, lfailed, lerr,
                   dvars, rvars, nbvars, tvars, vvars, fvars>>

\* gcloud ai-platform jobs submit training $JOB_NAME --config ... (lines
\* 619-630): a tuning job governed by the configuration file.
SubmitTuning ==
    /\ lpc = "submit"
    /\ jobs' = jobs + 1
    /\ job' = [name |-> JOB_NAME(jobs + 1), state |-> "RUNNING",
               config |-> hpconfig, trials |-> <<>>]
    /\ lpc' = "stream_logs"
    /\ UNCHANGED <<hpconfig, response, best, lout, lfailed, lerr,
                   dvars, rvars, nbvars, tvars, vvars, fvars>>

\* The service starts a trial: within maxTrials trials in all and
\* maxParallelTrials at a time, with hyperparameters of its choice.
StartTrial ==
    /\ job.state = "RUNNING"
    /\ Len(job.trials) < job.config.maxTrials
    /\ Cardinality(Running(job)) < job.config.maxParallelTrials
    /\ \E hp \in Hyperparameters :
         job' = [job EXCEPT !.trials =
                    Append(@, [trialId |-> Len(job.trials) + 1, state |-> "RUNNING",
                               alpha |-> hp.alpha, max_iter |-> hp.max_iter,
                               accuracy |-> 0])]
    /\ UNCHANGED <<lpc, hpconfig, jobs, response, best, lout, lfailed, lerr,
                   dvars, rvars, nbvars, tvars, vvars, fvars>>

\* A trial ends and reports its metric.
FinishTrial ==
    /\ \E i \in Running(job), acc \in Accuracies :
         job' = [job EXCEPT !.trials[i].state = "SUCCEEDED",
                            !.trials[i].accuracy = acc]
    /\ UNCHANGED <<lpc, hpconfig, jobs, response, best, lout, lfailed, lerr,
                   dvars, rvars, nbvars, tvars, vvars, fvars>>

\* The job ends when its trials have all run.
JobSucceeds ==
    /\ job.state = "RUNNING"
    /\ Len(job.trials) = job.config.maxTrials
    /\ Running(job) = {}
    /\ job' = [job EXCEPT !.state = "SUCCEEDED"]
    /\ UNCHANGED <<lpc, hpconfig, jobs, response, best, lout, lfailed, lerr,
                   dvars, rvars, nbvars, tvars, vvars, fvars>>

\* Variant with a slip: the cell returns at once, like jobs describe.
StreamLogsNoWait ==
    /\ lpc = "stream_logs"
    /\ lpc' = "retrieve"
    /\ UNCHANGED <<hpconfig, jobs, job, response, best, lout, lfailed, lerr,
                   dvars, rvars, nbvars, tvars, vvars, fvars>>

\* gcloud ai-platform jobs stream-logs $JOB_NAME (line 657) returns when
\* the job has ended.
StreamLogs ==
    /\ lpc = "stream_logs"
    /\ job.state = "SUCCEEDED"
    /\ lpc' = "retrieve"
    /\ UNCHANGED <<hpconfig, jobs, job, response, best, lout, lfailed, lerr,
                   dvars, rvars, nbvars, tvars, vvars, fvars>>

\* The trials a job description may list first: those of the best metric.
BestTrials(j) ==
    {t \in Range(j.trials) : \A u \in Range(j.trials) : u.accuracy <= t.accuracy}

\* Variant with a slip: no handler around request.execute().
retrieve_uncaught(outcome, resp, description) ==
    IF outcome = "ok"
    THEN [response |-> description, out |-> <<<<"response", description.name>>>>,
          err |-> "none"]
    ELSE [response |-> resp, out |-> <<>>, err |-> outcome]

\* The cell of lines 680-692 for an outcome of request.execute(): the
\* value of response afterwards, what the cell shows and the exception it
\* ends with.  Only the first trial of the description is kept.
retrieve(outcome, resp, description) ==
    LET r == IF outcome = "ok" THEN description ELSE resp
        handled ==
            CASE outcome = "ok"        -> <<>>
              [] outcome = "HttpError" -> <<<<"HttpError">>>>
              [] OTHER                 -> <<<<"Unexpected error">>>>
    IN  IF r.bound
        THEN [response |-> r, out |-> handled \o <<<<"response", r.name>>>>,
              err |-> "none"]
        ELSE [response |-> r, out |-> handled, err |-> "NameError"]

\* The outcomes of request.execute(): the job's description, an HttpError
\* or another exception.
Outcomes == {"ok", "HttpError", "OSError"}

Retrieve ==
    /\ lpc = "retrieve"
    /\ \E outcome \in Outcomes, first \in BestTrials(job) :
         LET after == retrieve(outcome, response,
                               [bound |-> TRUE, name |-> job.name, trial |-> first])
         IN  /\ response' = after.response
             /\ lout' = lout \o after.out
             /\ lerr' = after.err
             /\ lfailed' = IF outcome = "ok" THEN "none" ELSE outcome
             /\ lpc' = IF after.err = "none" THEN "best" ELSE "halted"
    /\ UNCHANGED <<hpconfig, jobs, job, best, dvars, rvars, nbvars, tvars, vvars, fvars>>

\* response['trainingOutput']['trials'][0]   (line 708)
ShowBest ==
    /\ lpc = "best"
    /\ lout' = Append(lout, <<"trial", response.trial.trialId>>)
    /\ lpc' = "params"
    /\ UNCHANGED <<hpconfig, jobs, job, response, best, lfailed, lerr,
                   dvars, rvars, nbvars, tvars, vvars, fvars>>

\* alpha = ..., max_iter = ...   (lines 733-734)
ReadBest ==
    /\ lpc = "params"
    /\ best' = [bound |-> TRUE, alpha |-> response.trial.alpha,
                max_iter |-> response.trial.max_iter]
    /\ lpc' = "retrain"
    /\ UNCHANGED <<hpconfig, jobs, job, response, lout, lfailed, lerr,
                   dvars, rvars, nbvars, tvars, vvars, fvars>>

\* The retraining cell (lines 743-757): a job under a new JOB_NAME, with
\* the alpha and max_iter read from response and --nohptune; gcloud shows
\* the submission.
SubmitRetrain ==
    /\ lpc = "retrain"
    /\ jobs < MaxJobs
    /\ jobs' = jobs + 1
    /\ lout' = Append(lout, <<"submitted", JOB_NAME(jobs + 1),
                              best.alpha, best.max_iter, "--nohptune">>)
    /\ lpc' = "retrained"
    /\ UNCHANGED <<hpconfig, job, response, best, lfailed, lerr,
                   dvars, rvars, nbvars, tvars, vvars, fvars>>

\* The operator runs the cells again from the submission of the tuning
\* job, in the same kernel: the kernel's variables keep their values.
RunAgain ==
    /\ lpc \in {"halted", "retrain", "retrained"}
    /\ jobs < MaxJobs
    /\ lpc' = "submit"
    /\ lout' = <<>>
    /\ lfailed' = "none"
    /\ lerr' = "none"
    /\ UNCHANGED <<hpconfig, jobs, job, response, best, dvars, rvars, nbvars, tvars, vvars, fvars>>

InitLab ==
    /\ LabAt("write_config")
    /\ TrainOff
    /\ FlowersOff
    /\ VertexAt("off", "UTC")
    /\ DistOff
    /\ RmseOff
    /\ NotebookAt("off", EmptyFrame)

NextLab ==
    \/ WriteConfig
    \/ SubmitTuning
    \/ StartTrial
    \/ FinishTrial
    \/ JobSucceeds
    \/ StreamLogs
    \/ Retrieve
    \/ ShowBest
    \/ ReadBest
    \/ SubmitRetrain
    \/ RunAgain

SpecLab == InitLab /\ [][NextLab]_vars

(***************************************************************************)
(* 3_kubeflow_pipelines_vertex: the cells that name the resources, the     *)
(* pipeline, and its run on Vertex Pipelines                               *)
(***************************************************************************)
\* datetime.now(): the local time of the kernel, <<year, month, day, hour,
\* minute, second>>, at half hour t after 2021-11-07 05:00:00 UTC.  In
\* America/New_York daylight saving time ends that day at 06:00:00 UTC.
now(t, z) ==
    LET utc    == 5 * 3600 + t * 1800
        offset == CASE z = "UTC" -> 0
                    [] z = "America/New_York" ->
                           IF utc < 6 * 3600 THEN -4 * 3600 ELSE -5 * 3600
        local  == utc + offset
    IN  <<2021, 11, 7, local \div 3600, (local % 3600) \div 60, local % 60>>

\* datetime.now().strftime("%Y%m%d%H%M%S")   (line 143)
strftime(t, z) ==
    LET d == now(t, z)
    IN  ToString(d[1]) \o Pad2(d[2]) \o Pad2(d[3]) \o Pad2(d[4]) \o Pad2(d[5])
        \o Pad2(d[6])

BUCKET == "my-project"

\* Variant with a slip: model_upload_op.after(train_task) is left out.
pipeline_without_after(ts, mdn) ==
    [name |-> "taxifare--train-upload-endpoint-deploy",
     display_name |-> "pipelines-train-" \o ts,
     model_display_name |-> mdn,
     after |-> [t \in TaskNames |-> {}]]

\* The pipeline of lines 309-333 as compiled (lines 358-361): its name, the
\* display name of the training job, the default of model_display_name and
\* the tasks each task is to run after.  The arguments left to the reader
\* (TODO) add no dependency here.
pipeline(ts, mdn) ==
    [name |-> "taxifare--train-upload-endpoint-deploy",
     display_name |-> "pipelines-train-" \o ts,
     model_display_name |-> mdn,
     after |-> [t \in TaskNames |->
                   IF t = "model_upload" THEN {"train"} ELSE {}]]

MaxTicks == 2
MaxRuns == 2
Zones == {"UTC", "America/New_York"}

\* Time passes.  (The notebook reads the clock in one cell only; time is
\* let pass before that cell.)
Tick ==
    /\ vpc = "environment"
    /\ clock < MaxTicks
    /\ clock' = clock + 1
    /\ UNCHANGED <<vpc, zone, TIMESTAMP, OUTDIR, MODEL_DISPLAY_NAME, job_spec, tasks,
                   stamped, named, runs, dvars, rvars, nbvars, tvars, lvars, fvars>>

\* Lines 137-145.
SetEnvironment ==
    /\ vpc = "environment"
    /\ TIMESTAMP' = strftime(clock, zone)
    /\ stamped' = clock
    /\ vpc' = "names"
    /\ UNCHANGED <<clock, zone, OUTDIR, MODEL_DISPLAY_NAME, job_spec, tasks, named,
                   runs, dvars, rvars, nbvars, tvars, lvars, fvars>>

\* Lines 258-285.
SetNames ==
    /\ vpc = "names"
    /\ OUTDIR' = "gs://" \o BUCKET \o "/taxifare/trained_model_" \o TIMESTAMP
    /\ MODEL_DISPLAY_NAME' = "taxifare_" \o TIMESTAMP
    /\ named' = named \cup {[name |-> OUTDIR', at |-> stamped],
                            [name |-> MODEL_DISPLAY_NAME', at |-> stamped]}
    /\ vpc' = "compile"
    /\ UNCHANGED <<clock, zone, TIMESTAMP, job_spec, tasks, stamped, runs,
                   dvars, rvars, nbvars, tvars, lvars, fvars>>

\* The definition of the pipeline and its compilation (lines 309-333 and
\* 355-361).
Compile ==
    /\ vpc = "compile"
    /\ job_spec' = pipeline(TIMESTAMP, MODEL_DISPLAY_NAME)
    /\ named' = named \cup {[name |-> job_spec'.display_name, at |-> stamped]}
    /\ vpc' = "run"
    /\ UNCHANGED <<clock, zone, TIMESTAMP, OUTDIR, MODEL_DISPLAY_NAME, tasks, stamped,
                   runs, dvars, rvars, nbvars, tvars, lvars, fvars>>

\* pipeline_job.run() (lines 392-398 and 418): the run is handed to Vertex
\* Pipelines and the call waits for its end.
RunPipeline ==
    /\ vpc = "run"
    /\ tasks' = [t \in TaskNames |-> "PENDING"]
    /\ runs' = runs + 1
    /\ vpc' = "running"
    /\ UNCHANGED <<clock, zone, TIMESTAMP, OUTDIR, MODEL_DISPLAY_NAME, job_spec,
                   stamped, named, dvars, rvars, nbvars, tvars, lvars, fvars>>

\* The service starts a task once the tasks it is to run after have
\* succeeded.
StartTask ==
    /\ vpc = "running"
    /\ \E t \in TaskNames :
         /\ tasks[t] = "PENDING"
         /\ \A u \in job_spec.after[t] : tasks[u] = "SUCCEEDED"
         /\ tasks' = [tasks EXCEPT ![t] = "RUNNING"]
    /\ UNCHANGED <<vpc, clock, zone, TIMESTAMP, OUTDIR, MODEL_DISPLAY_NAME, job_spec,
                   stamped, named, runs, dvars, rvars, nbvars, tvars, lvars, fvars>>

\* A running task ends, in success or in failure.
FinishTask ==
    /\ vpc = "running"
    /\ \E t \in TaskNames, end \in {"SUCCEEDED", "FAILED"} :
         /\ tasks[t] = "RUNNING"
         /\ tasks' = [tasks EXCEPT ![t] = end]
    /\ UNCHANGED <<vpc, clock, zone, TIMESTAMP, OUTDIR, MODEL_DISPLAY_NAME, job_spec,
                   stamped, named, runs, dvars, rvars, nbvars, tvars, lvars, fvars>>

\* The run is over when no task is running and none can start.
RunEnds ==
    /\ vpc = "running"
    /\ \A t \in TaskNames :
         /\ tasks[t] # "RUNNING"
         /\ tasks[t] = "PENDING" => \E u \in job_spec.after[t] : tasks[u] # "SUCCEEDED"
    /\ vpc' = "finished"
    /\ UNCHANGED <<clock, zone, TIMESTAMP, OUTDIR, MODEL_DISPLAY_NAME, job_spec, tasks,
                   stamped, named, runs, dvars, rvars, nbvars, tvars, lvars, fvars>>

\* The notebook is run again from its first cell.
RunNotebookAgain ==
    /\ vpc = "finished"
    /\ runs < MaxRuns
    /\ vpc' = "environment"
    /\ UNCHANGED <<clock, zone, TIMESTAMP, OUTDIR, MODEL_DISPLAY_NAME, job_spec, tasks,
                   stamped, named, runs, dvars, rvars, nbvars, tvars, lvars, fvars>>

InitVertex ==
    /\ \E z \in Zones : VertexAt("environment", z)
    /\ TrainOff
    /\ FlowersOff
    /\ LabAt("off")
    /\ DistOff
    /\ RmseOff
    /\ NotebookAt("off", EmptyFrame)

NextVertex ==
    \/ Tick
    \/ SetEnvironment
    \/ SetNames
    \/ Compile
    \/ RunPipeline
    \/ StartTask
    \/ FinishTask
    \/ RunEnds
    \/ RunNotebookAgain

SpecVertex == InitVertex /\ [][NextVertex]_vars

(***************************************************************************)
(* The flowers notebook: load_dataset (lines 288-303) and the iteration of *)
(* the tf.data dataset it returns                                          *)
(***************************************************************************)
\* Lines 156-165.
IMG_HEIGHT == 224
IMG_WIDTH == 224
IMG_CHANNELS == 3
BATCH_SIZE == 32
SHUFFLE_BUFFER == 10 * BATCH_SIZE

\* CLASS_NAMES (lines 80-81): the directories of the photos.
CLASS_NAMES == <<"daisy", "dandelion", "roses", "sunflowers", "tulips">>

train_path == "gs://cloud-ml-data/img/flower_photos/train_set.csv"
eval_path == "gs://cloud-ml-data/img/flower_photos/eval_set.csv"

\* decode_img (lines 178-184): the photo decoded and resized; the pixels
\* are named by the file they come from.
decode_img(img, reshape_dims) ==
    [jpeg |-> img, shape |-> reshape_dims \o <<IMG_CHANNELS>>, flipped |-> FALSE]

\* decode_csv (lines 224-229) of a line with the fields path and flower.
decode_csv(csv_row) ==
    LET filename     == csv_row[1]
        label_string == csv_row[2]
    IN  [image_bytes |-> <<"contents of", filename>>,
         label |-> [i \in 1..Len(CLASS_NAMES) |-> CLASS_NAMES[i] = label_string]]

\* read_and_preprocess (lines 257-266).  Of the random changes only the
\* outcome of random_flip_left_right is told apart (flip); the crop brings
\* the shape back to IMG_HEIGHT x IMG_WIDTH.
read_and_preprocess(image_bytes, label, random_augment, flip) ==
    IF random_augment
    THEN [img |-> [decode_img(image_bytes, <<IMG_HEIGHT + 10, IMG_WIDTH + 10>>)
                     EXCEPT !.shape = <<IMG_HEIGHT, IMG_WIDTH, IMG_CHANNELS>>,
                            !.flipped = flip],
          label |-> label]
    ELSE [img |-> decode_img(image_bytes, <<IMG_WIDTH, IMG_HEIGHT>>), label |-> label]

\* Variant with a slip: the evaluation data repeats like the training data.
load_dataset_eval_repeats(csv_of_filenames, batch_size, training) ==
    [filenames |-> csv_of_filenames, training |-> training,
     shuffle |-> IF training THEN SHUFFLE_BUFFER ELSE 0,
     count |-> -1, batch_size |-> batch_size]

\* load_dataset (lines 288-303): the dataset it describes.  count is the
\* argument of repeat, -1 for None; shuffle is the buffer size, 0 for no
\* shuffle.  prefetch changes when batches are prepared, not what they are.
load_dataset(csv_of_filenames, batch_size, training) ==
    [filenames |-> csv_of_filenames, training |-> training,
     shuffle |-> IF training THEN SHUFFLE_BUFFER ELSE 0,
     count |-> IF training THEN -1 ELSE 1, batch_size |-> batch_size]

\* The bounds: lines per file, batch size, elements taken from a dataset
\* that repeats for ever, and iterations of one dataset.
MaxLines == 4
MaxBatch == 3
MaxPulls == 3
MaxPasses == 2

\* train_ds = load_dataset(train_path, ...) and eval_ds =
\* load_dataset(eval_path, ..., training=False)   (lines 320, 403-404)
LoadDataset ==
    /\ fpc = "build"
    /\ \E batch_size \in 1..MaxBatch, training \in BOOLEAN :
         ds' = load_dataset(IF training THEN train_path ELSE eval_path,
                            batch_size, training)
    /\ fpc' = "ready"
    /\ UNCHANGED <<gcs, cache, rest, pending, batches, pulls, passes,
                   dvars, rvars, nbvars, tvars, lvars, vvars>>

\* An iteration of the dataset starts (iter(ds), or an epoch of Keras):
\* TextLineDataset will read the file from its first line.
Iterate ==
    /\ fpc \in {"ready", "done"}
    /\ passes < MaxPasses
    /\ passes' = passes + 1
    /\ rest' = [i \in 1..Len(gcs[ds.filenames]) |-> i]
    /\ pending' = <<>>
    /\ batches' = <<>>
    /\ fpc' = "iterating"
    /\ UNCHANGED <<gcs, ds, cache, pulls, dvars, rvars, nbvars, tvars, lvars, vvars>>

\* batch takes its next element from upstream.  Without shuffle that is
\* the next line; with shuffle it is any element of the buffer, which
\* holds the first SHUFFLE_BUFFER elements not yet taken.  When the file
\* is at its end and repeat has no count, the file is read again.  cache
\* keeps the decoded lines read so far; the map that follows it runs on
\* each element as it is taken.
Pull ==
    /\ fpc = "iterating"
    /\ Len(pending) < ds.batch_size
    /\ ds.count = -1 => pulls < MaxPulls
    /\ LET lines  == gcs[ds.filenames]
           n      == Len(lines)
           buffer == Max(ds.shuffle, 1)
           r      == IF rest = <<>> /\ ds.count = -1
                     THEN [i \in 1..n |-> i] ELSE rest
       IN  /\ r # <<>>
           /\ \E i \in 1..Min(buffer, Len(r)),
                 flip \in (IF ds.training THEN BOOLEAN ELSE {FALSE}) :
                 LET read  == Max(Len(cache), Min(n, (n - Len(r)) + buffer))
                     held  == [j \in 1..read |->
                                 IF j <= Len(cache) THEN cache[j]
                                 ELSE decode_csv(lines[j])]
                     taken == held[r[i]]
                 IN  /\ cache' = held
                     /\ rest' = SubSeq(r, 1, i - 1) \o SubSeq(r, i + 1, Len(r))
                     /\ pending' = Append(pending,
                            read_and_preprocess(taken.image_bytes, taken.label,
                                                ds.training, flip))
    /\ pulls' = pulls + 1
    /\ UNCHANGED <<fpc, gcs, ds, batches, passes, dvars, rvars, nbvars, tvars, lvars, vvars>>

\* batch delivers batch_size elements.
Emit ==
    /\ fpc = "iterating"
    /\ Len(pending) = ds.batch_size
    /\ batches' = Append(batches, pending)
    /\ pending' = <<>>
    /\ UNCHANGED <<fpc, gcs, ds, cache, rest, pulls, passes,
                   dvars, rvars, nbvars, tvars, lvars, vvars>>

\* Upstream is at its end (repeat(count=1) after the last line): batch
\* delivers what it holds, if anything (drop_remainder is not set), and
\* the iteration ends.
Exhaust ==
    /\ fpc = "iterating"
    /\ ds.count = 1
    /\ rest = <<>>
    /\ Len(pending) < ds.batch_size
    /\ batches' = IF pending = <<>> THEN batches ELSE Append(batches, pending)
    /\ pending' = <<>>
    /\ fpc' = "done"
    /\ UNCHANGED <<gcs, ds, cache, rest, pulls, passes,
                   dvars, rvars, nbvars, tvars, lvars, vvars>>

\* The lines of the CSV files tried: path and flower.
FlowerLines ==
    <<<<"gs://cloud-ml-data/img/flower_photos/daisy/754296579_30a9ae018c_n.jpg", "daisy">>,
      <<"gs://cloud-ml-data/img/flower_photos/roses/1.jpg", "roses">>,
      <<"gs://cloud-ml-data/img/flower_photos/tulips/2.jpg", "tulips">>,
      <<"gs://cloud-ml-data/img/flower_photos/daisy/3.jpg", "daisy">>>>
FlowerFile(n, k) ==
    [i \in 1..n |-> FlowerLines[((i + k) % Len(FlowerLines)) + 1]]

InitFlowers ==
    /\ \E n \in 0..MaxLines, k \in 1..Len(FlowerLines) :
         FlowersAt("build", (train_path :> FlowerFile(n, k + 1))
                            @@ (eval_path :> FlowerFile(n, k)))
    /\ TrainOff
    /\ LabAt("off")
    /\ VertexAt("off", "UTC")
    /\ DistOff
    /\ RmseOff
    /\ NotebookAt("off", EmptyFrame)

NextFlowers ==
    \/ LoadDataset
    \/ Iterate
    \/ Pull
    \/ Emit
    \/ Exhaust

SpecFlowers == InitFlowers /\ [][NextFlowers]_vars

\* The consumer of the dataset (Keras, or a for loop) asks for the next
\* batch until the sequence ends, and tf.data serves each request.
SpecFlowersFair == SpecFlowers /\ WF_vars(Pull \/ Emit \/ Exhaust)

(***************************************************************************)
(* Properties of distance_between                                          *)
(***************************************************************************)
Called(lat1, lon1, lat2, lon2) ==
    /\ dpc = "done"
    /\ dcall = [lat1 |-> lat1, lon1 |-> lon1, lat2 |-> lat2, lon2 |-> lon2]

\* C1: one degree of latitude on the equator, (0, 0) to (1, 0), comes out
\* as about 111 km (here: within 2 km of 111 km).
OneDegreeIsAbout111Km ==
    Called(0, 0, 1, 0) => ~dret.nan /\ Abs(dret.v - 1110000) <= 20000

\* C2: the distance from a point to itself is exactly 0.
SamePointDistanceZero ==
    (dpc = "done" /\ dcall.lat1 = dcall.lat2 /\ dcall.lon1 = dcall.lon2)
        => dret = Num(0)

\* C3: distance_between is symmetric: swapping the two points gives the
\* same result as the call returned.
DistanceSymmetric ==
    dpc = "done" =>
        dret = distance_between(dcall.lat2, dcall.lon2, dcall.lat1, dcall.lon1)

DistanceSymmetricWitness ==
    /\ dpc = "done"
    /\ dcall.lat1 # dcall.lat2
    /\ dcall.lon1 # dcall.lon2
    /\ ~dret.nan
    /\ dret.v > 0

\* C4: the result of distance_between is a number >= 0, for every pair of
\* points.
DistanceNonNegative ==
    dpc = "done" => ~dret.nan /\ dret.v >= 0

(***************************************************************************)
(* Properties of compute_rmse                                              *)
(***************************************************************************)
\* C5: compute_rmse(actual, actual) = 0 for every non-empty actual.
RmseOfSelfIsZero ==
    (rpc = "done" /\ Len(rcall.actual) > 0 /\ rcall.predicted = rcall.actual)
        => rret = Num(0)

RmseOfSelfWitness ==
    /\ rpc = "done"
    /\ Len(rcall.actual) > 1
    /\ rcall.predicted = rcall.actual
    /\ rcall.actual[1] # rcall.actual[2]
    /\ rret = Num(0)

\* C6: swapping actual and predicted (a sign flip of every error) leaves
\* compute_rmse unchanged.
RmseSignFlipInvariant ==
    rpc = "done" => rret = compute_rmse(rcall.predicted, rcall.actual)

RmseSignFlipWitness ==
    /\ rpc = "done"
    /\ Len(rcall.actual) > 1
    /\ \E i \in 1..Len(rcall.actual) : rcall.actual[i] < rcall.predicted[i]
    /\ SumSeq(rcall.actual) # SumSeq(rcall.predicted)
    /\ ~rret.nan
    /\ rret.v > 0

\* C7: compute_rmse(actual, predicted) is a number >= 0 for all non-empty
\* sequences of equal length.
RmseNonNegative ==
    (rpc = "done" /\ Len(rcall.actual) > 0) => ~rret.nan /\ rret.v >= 0

RmseNonNegativeWitness ==
    /\ rpc = "done"
    /\ Len(rcall.actual) > 0
    /\ SumSeq(rcall.actual) < SumSeq(rcall.predicted)
    /\ ~rret.nan
    /\ rret.v > 0

(***************************************************************************)
(* Properties of the benchmark                                             *)
(***************************************************************************)
\* The three parts of the split, as rows of shuffled: as many rows as the
\* benchmark's dataframes hold, in the order train, validation, test.
TrainPart == SubSeq(shuffled.rows, 1, Len(df_train.rows))
ValidPart ==
    SubSeq(shuffled.rows, Len(df_train.rows) + 1,
           Len(df_train.rows) + Len(df_valid.rows))
TestPart ==
    SubSeq(shuffled.rows, Len(df_train.rows) + Len(df_valid.rows) + 1,
           Len(shuffled.rows))
PartNamed(name) ==
    CASE name = "Train" -> TrainPart
      [] name = "Valid" -> ValidPart
      [] name = "Test"  -> TestPart

Fares(rows) == [i \in 1..Len(rows) |-> rows[i]["fare_amount"]]
Kms(rows) ==
    [i \in 1..Len(rows) |->
        distance_between(rows[i]["pickup_latitude"], rows[i]["pickup_longitude"],
                         rows[i]["dropoff_latitude"], rows[i]["dropoff_longitude"]).v]
RateOf(rows) == FDiv(mean(Fares(rows)), mean(Kms(rows)))
RmseAtRate(rows, r) ==
    IF r.nan THEN NaN
    ELSE compute_rmse(Fares(rows), [i \in 1..Len(rows) |-> FMul(r.v, Kms(rows)[i], H8)])

Rated == pc \in {"rated", "printed_train", "printed_valid", "benchmarked"}

WrittenFrom(filename) ==
    CASE filename = "taxi-train.csv" -> df_train
      [] filename = "taxi-valid.csv" -> df_valid
      [] filename = "taxi-test.csv"  -> df_test

NotTarget(c) == c # "fare_amount"

\* C9: a file written by to_csv has one line per row and no header line;
\* on every line the fare amount comes first, the row number (key) last,
\* and the other columns in between, in the dataframe's order.
CsvLineFormat ==
    pc \in {"wrote_train", "wrote_valid", "written"} =>
        \A f \in DOMAIN files :
            LET df    == WrittenFrom(f)
                feats == SelectSeq(df.cols, NotTarget)
            IN  /\ Len(files[f]) = Len(df.rows)
                /\ \A i \in 1..Len(files[f]) :
                       LET line == files[f][i]
                       IN  /\ Len(line) = Len(feats) + 2
                           /\ line[1] = df.rows[i]["fare_amount"]
                           /\ line[Len(line)] = i - 1
                           /\ \A j \in 1..Len(feats) :
                                  line[j + 1] = df.rows[i][feats[j]]

CsvLineFormatWitness ==
    /\ pc = "written"
    /\ Len(files["taxi-train.csv"]) > 1
    /\ Len(files["taxi-valid.csv"]) > 0
    /\ Len(files["taxi-test.csv"]) > 1
    /\ files["taxi-test.csv"][2][1] = 4500000
    /\ files["taxi-test.csv"][2][8] = 1

(***************************************************************************)
(* Properties of preprocess                                                *)
(***************************************************************************)
Between(v, lo, hi) == lo < v /\ v < hi

InNewYork(r) ==
    /\ Between(r["pickup_longitude"], -78, -70)
    /\ Between(r["dropoff_longitude"], -78, -70)
    /\ Between(r["pickup_latitude"], 37, 45)
    /\ Between(r["dropoff_latitude"], 37, 45)
    /\ r["passenger_count"] > 0

QcCols ==
    {"pickup_datetime", "pickup_longitude", "pickup_latitude",
     "dropoff_longitude", "dropoff_latitude", "passenger_count"}

\* C10: every row preprocess returns has both longitudes strictly between
\* -78 and -70, both latitudes strictly between 37 and 45 and a positive
\* passenger count, and the rows returned are exactly the input rows that
\* satisfy this, in order.
PreprocessKeepsExactlyValidRows ==
    pc = "qc" =>
        LET valid == SelectSeq(trips.rows, InNewYork)
        IN  /\ \A i \in 1..Len(tripsqc.rows) : InNewYork(tripsqc.rows[i])
            /\ Len(tripsqc.rows) = Len(valid)
            /\ \A i \in 1..Len(valid) :
                   \A c \in QcCols : tripsqc.rows[i][c] = valid[i][c]

PreprocessKeepsValidWitness ==
    /\ pc = "qc"
    /\ Len(trips.rows) = 2
    /\ Len(tripsqc.rows) = 1
    /\ trips.rows[1]["dropoff_latitude"] = 45
    /\ trips.rows[2]["dropoff_latitude"] = 44

\* C11: every ride record that reaches the ML datasets has trip distance
\* > 0 and fare amount >= 2.50: this holds of every row of the dataframe
\* passed to preprocess and of every row preprocess keeps.
OnlyValidRidesReachDatasets ==
    /\ pc = "start" =>
           \A i \in 1..Len(trips.rows) :
               /\ trips.rows[i]["trip_distance"] > 0
               /\ trips.rows[i]["fare_amount"] >= 25000
    /\ pc = "qc" =>
           \A i \in 1..Len(trips.rows) :
               InNewYork(trips.rows[i]) =>
                   /\ trips.rows[i]["trip_distance"] > 0
                   /\ trips.rows[i]["fare_amount"] >= 25000

\* C12: preprocess accepts a ride record exactly when the record satisfies
\* the conditions of validation_query's WHERE clause other than the
\* sampling condition: the rows preprocess returns are the rows of trips
\* that satisfy those conditions, in order.
PreprocessMatchesValidationFilter ==
    pc = "qc" =>
        LET accepted == SelectSeq(trips.rows, validation_filter)
        IN  /\ Len(tripsqc.rows) = Len(accepted)
            /\ \A i \in 1..Len(accepted) :
                   \A c \in QcCols : tripsqc.rows[i][c] = accepted[i][c]

\* C19: preprocess discards the timestamp: its result has no column
\* pickup_datetime, and a line of the CSV files holds the fare, the four
\* coordinates, the passenger count and the key, and nothing else.
TimestampDiscarded ==
    /\ pc \notin {"off", "query", "queried", "start"} =>
           /\ "pickup_datetime" \notin Range(tripsqc.cols)
           /\ \A i \in 1..Len(tripsqc.rows) :
                  "pickup_datetime" \notin DOMAIN tripsqc.rows[i]
    /\ \A f \in DOMAIN files :
           \A i \in 1..Len(files[f]) : Len(files[f][i]) = 7

\* C20: for every row preprocess returns, fare_amount is the fare_amount
\* of the input row plus its tolls_amount.
FareIsFarePlusTolls ==
    pc = "qc" =>
        LET kept == SelectSeq(trips.rows, InNewYork)
        IN  /\ Len(tripsqc.rows) = Len(kept)
            /\ \A i \in 1..Len(kept) :
                   tripsqc.rows[i]["fare_amount"]
                       = kept[i]["fare_amount"] + kept[i]["tolls_amount"]

FareIsFarePlusTollsWitness ==
    /\ pc = "qc"
    /\ Len(tripsqc.rows) = 2
    /\ trips.rows[1]["tolls_amount"] = 500000
    /\ trips.rows[1]["total_amount"] = 4700000
    /\ tripsqc.rows[1]["fare_amount"] = 4500000
    /\ tripsqc.rows[2]["fare_amount"] = 3000000

\* The columns preprocess deletes (lines 355-357).
Deleted == {"trip_distance", "tolls_amount", "total_amount"}

IsPartition ==
    /\ df_train.rows \o df_valid.rows \o df_test.rows = shuffled.rows
    /\ Len(shuffled.rows) = Len(tripsqc.rows)
    /\ Range(shuffled.rows) = Range(tripsqc.rows)
    /\ Cardinality(Range(shuffled.rows)) = Len(shuffled.rows)
    /\ Range(df_train.rows) \cap Range(df_valid.rows) = {}
    /\ Range(df_train.rows) \cap Range(df_test.rows) = {}
    /\ Range(df_valid.rows) \cap Range(df_test.rows) = {}

\* C22 as stated: after the split the three parts are a partition of the
\* n shuffled rows and their sizes are floor(0.70 n), floor(0.15 n) and
\* the rest.
SplitIsPartitionWithFloorSizes ==
    pc = "split" =>
        LET n == Len(shuffled.rows)
        IN  /\ IsPartition
            /\ Len(df_train.rows) = (7 * n) \div 10
            /\ Len(df_valid.rows) = (15 * n) \div 100
            /\ Len(df_test.rows) = n - ((7 * n) \div 10) - ((15 * n) \div 100)

\* C22, amended: after the split the three parts are a partition of the
\* n shuffled rows; df_valid has floor(0.15 n) rows, df_train has
\* floor(0.70 n) rows or, only when n is a multiple of 10, one fewer, and
\* df_test has the rest.
SplitIsPartition ==
    pc = "split" =>
        LET n == Len(shuffled.rows)
        IN  /\ IsPartition
            /\ Len(df_valid.rows) = (15 * n) \div 100
            /\ \/ Len(df_train.rows) = (7 * n) \div 10
               \/ n % 10 = 0 /\ Len(df_train.rows) = ((7 * n) \div 10) - 1
            /\ Len(df_test.rows) = n - Len(df_train.rows) - Len(df_valid.rows)

SplitIsPartitionWitness ==
    /\ pc = "split"
    /\ Len(tripsqc.rows) = 90
    /\ shuffled.rows # tripsqc.rows
    /\ Len(df_train.rows) = 62
    /\ Len(df_valid.rows) = 13
    /\ Len(df_test.rows) = 15

(***************************************************************************)
(* Properties of the final benchmark                                       *)
(***************************************************************************)
\* The rides of the table that validation_query selects, in table order,
\* with the fare it computes.
FinalSet(tb) ==
    LET chosen == SelectSeq(tb.rows, validation_where)
    IN  [i \in 1..Len(chosen) |->
            [chosen[i] EXCEPT !["fare_amount"] = @ + chosen[i]["tolls_amount"]]]

\* C18: the RMSE printed for the final validation set is the RMSE, at the
\* rate 2.59988, over the rides of the table that validation_query selects:
\* it is the same in every run over the same table, whatever the shuffle of
\* the split and the order of the query's result.
FinalRmseSameEachRun ==
    pc = "final" =>
        printed["Final Validation Set"] = RmseAtRate(FinalSet(table), Num(259988000))

FinalRmseSameWitness ==
    /\ pc = "final"
    /\ shuffled.rows # tripsqc.rows
    /\ Len(shuffled.rows) > 2
    /\ Len(df_valid.rows) = 2
    /\ df_valid.rows[1]["passengers"] = 3
    /\ ~printed["Final Validation Set"].nan
    /\ printed["Final Validation Set"].v > 0
    /\ printed["Final Validation Set"] # printed["Valid"]

(***************************************************************************)
(* Properties of train_evaluate                                            *)
(***************************************************************************)
\* The lines of a dataset file as rows, label removed.
FeatureRows(file) == DelCol(read_csv(Tail(file), CoverCols), "Cover_Type").rows
Labels(file) == [i \in 1..Len(file) - 1 |-> file[i + 1][Len(CoverCols)]]

\* C16: the model is fitted on the training rows followed by the
\* validation rows exactly when hptune is false; when hptune is true it is
\* fitted on the training rows only, none of them a validation row.
FitsOnBothExactlyWhenNotTuning ==
    tpipeline.fitted =>
        /\ ~targs.hptune =>
               /\ tpipeline.X.rows
                      = FeatureRows(targs.training) \o FeatureRows(targs.validation)
               /\ tpipeline.y = Labels(targs.training) \o Labels(targs.validation)
        /\ targs.hptune =>
               /\ tpipeline.X.rows = FeatureRows(targs.training)
               /\ tpipeline.y = Labels(targs.training)
               /\ \A i \in 1..Len(tpipeline.X.rows) :
                      tpipeline.X.rows[i] \notin Range(FeatureRows(targs.validation))

FitsOnBothWitness ==
    /\ tpc = "returned"
    /\ ~targs.hptune
    /\ Len(targs.training) = 3
    /\ Len(targs.validation) = 3
    /\ Len(tpipeline.X.rows) = 4
    /\ tpipeline.y = <<1, 2, 5, 0>>

FitsOnTrainingOnlyWitness ==
    /\ tpc = "returned"
    /\ targs.hptune
    /\ Len(targs.validation) = 3
    /\ tpipeline.y = <<2, 1>>

\* C24: a call of train_evaluate that returns has written model.pkl and
\* copied it to job_dir exactly when hptune is false; with hptune true no
\* file is ever written or copied; a file is written only once the
\* pipeline is fitted, and copied only once it is written.  (A call in
\* which gsutil fails raises CalledProcessError with model.pkl written
\* and not copied.)
ModelSavedExactlyWhenNotTuning ==
    LET local  == "model.pkl" \in tfiles
        copied == gcs_model_path(targs.job_dir) \in tfiles
    IN  /\ tfiles \subseteq {"model.pkl", gcs_model_path(targs.job_dir)}
        /\ targs.hptune => tfiles = {}
        /\ tpc = "returned" => (local <=> ~targs.hptune) /\ (copied <=> ~targs.hptune)
        /\ local => tpipeline.fitted /\ ~targs.hptune
        /\ copied => local
        /\ tpc = "raised CalledProcessError" => local /\ ~copied /\ ~targs.hptune

ModelSavedWitness ==
    /\ tpc = "returned"
    /\ ~targs.hptune
    /\ tpipeline.fitted
    /\ tpipeline.alpha = 1
    /\ tfiles = {"model.pkl", "gs://artifact-store/jobs/JOB_1/model.pkl"}
    /\ Len(tstdout) = 2

NothingSavedWhenTuningWitness ==
    /\ tpc = "returned"
    /\ targs.hptune
    /\ tpipeline.fitted
    /\ tfiles = {}

TuningWithinSixTrialsThreeParallel ==
    job.state # "NONE" =>
        /\ job.config.goal = "MAXIMIZE"
        /\ job.config.hyperparameterMetricTag = "accuracy"
        /\ Len(job.trials) <= 6
        /\ Cardinality(Running(job)) <= 3

\* The submissions of a retraining job the cells have shown.
Retrains == {i \in 1..Len(lout) : lout[i][1] = "submitted"}

Started(t) == tasks[t] \in {"RUNNING", "SUCCEEDED", "FAILED"}

\* C15: in every run of the pipeline the model upload starts only after
\* the training task has completed: it is never running or finished while
\* training has not succeeded.
UploadOnlyAfterTraining ==
    Started("model_upload") => tasks["train"] = "SUCCEEDED"

UploadAfterTrainingWitness ==
    /\ vpc = "running"
    /\ tasks["model_upload"] = "RUNNING"
    /\ tasks["train"] = "SUCCEEDED"
    /\ tasks["endpoint_create"] = "PENDING"

\* C17: within a run OUTDIR, MODEL_DISPLAY_NAME and the display name of
\* the training job embed the run's TIMESTAMP, and two runs whose TIMESTAMP
\* cells ran at different times never make the same name.
NamesNeverCollide ==
    /\ vpc \in {"run", "running", "finished"} =>
           /\ OUTDIR = "gs://my-project/taxifare/trained_model_" \o TIMESTAMP
           /\ MODEL_DISPLAY_NAME = "taxifare_" \o TIMESTAMP
           /\ job_spec.display_name = "pipelines-train-" \o TIMESTAMP
           /\ job_spec.model_display_name = MODEL_DISPLAY_NAME
    /\ \A a, b \in named : a.at # b.at => a.name # b.name

(***************************************************************************)
(* Properties of load_dataset                                              *)
(***************************************************************************)
RECURSIVE Flatten(_)
Flatten(ss) == IF ss = <<>> THEN <<>> ELSE Head(ss) \o Flatten(Tail(ss))

\* The records of a file as the evaluation dataset delivers them.
Records(lines) ==
    [i \in 1..Len(lines) |->
        LET d == decode_csv(lines[i])
        IN  read_and_preprocess(d.image_bytes, d.label, FALSE, FALSE)]

EvalStreamInOrder ==
    (fpc \in {"iterating", "done"} /\ ~ds.training) =>
        LET all == Records(gcs[ds.filenames])
            got == Flatten(batches) \o pending
        IN  /\ Len(got) <= Len(all)
            /\ got = SubSeq(all, 1, Len(got))
            /\ \A b \in 1..Len(batches) :
                   /\ Len(batches[b]) \in 1..ds.batch_size
                   /\ Len(batches[b]) < ds.batch_size =>
                          b = Len(batches) /\ fpc = "done"
            /\ fpc = "done" => got = all /\ pending = <<>>

====
